---- MODULE Spec2Model ----
(***************************************************************************)
(* The encode and decode pipelines of lyra's command line front ends:      *)
(* EncodeWav / EncodeFile (encoder_main_lib.cc) and PacketSize /           *)
(* DecodeFeatures / DecodeFile (decoder_main_lib.cc).                      *)
(*                                                                         *)
(* One behaviour of the model is one invocation of one entry point (op).   *)
(* The codec engine, the preprocessor and the container readers/writers    *)
(* are collaborators: every call the code makes to one of them is appended *)
(* to the history variable calls, and the collaborator's answer is chosen  *)
(* nondeterministically among the answers its interface allows.            *)
(***************************************************************************)
EXTENDS Integers, Sequences, FiniteSets, TLC

(***************************************************************************)
(* Sizes of the model.  kNumFeatures and kNumFramesPerPacket are constants *)
(* of lyra_config.h, scaled down.                                          *)
(***************************************************************************)
kNumFeatures == 2
kNumFramesPerPacket == 2
MaxSamples == 5
MaxFeatures == 5
MaxSampleRate == 3
MaxFrameRate == 3
MaxBitrate == 4

\* <climits>, used by PacketSize.
CHAR_BIT == 8

SampleRates == 1..MaxSampleRate
\* 0 is the frame rate of an invalid configuration.
FrameRates == 0..MaxFrameRate
\* 3000 is the bitrate of the documented example; 2^24 + 1 is the first int
\* that static_cast<float> cannot represent.
Bitrates == (0..MaxBitrate) \cup {3000, 16777217}

\* The sample at position i of an input is i: the pipelines never inspect a
\* sample, and distinct values tell the windows of a buffer apart.
Ramp(n) == [i \in 1..n |-> i]
WavInputs == {Ramp(n) : n \in 0..MaxSamples}
FeatureInputs == {Ramp(n) : n \in 0..MaxFeatures}
\* What an out-parameter may hold when the pipeline is entered: nothing (a
\* fresh vector, as in EncodeFile and DecodeFile) or a caller's earlier data.
EntryContents == {<< >>, <<9>>}
\* The channel loss parameters of DecodeFeatures: no loss, or every packet
\* lost; bursts of one packet or of two.
LossRates == {0, 1}
BurstLengths == {1, 2}

Fill(n, v) == [i \in 1..n |-> v]
Min(a, b) == IF a <= b THEN a ELSE b

\* absl::MakeConstSpan(p + at, size) over buf: the elements the span covers
\* that lie inside buf.
SpanOf(buf, at, size) == SubSeq(buf, at + 1, Min(at + size, Len(buf)))

VARIABLES
  op,                      \* the entry point this run invokes
  pc,                      \* the position of the run
  encode_ret,              \* what EncodeWav returned
  decode_ret,              \* what DecodeFeatures returned
  file_ret,                \* what EncodeFile / DecodeFile returned
  sample_rate_hz,
  frame_rate,              \* encoder->frame_rate(), decoder->frame_rate()
  bitrate,                 \* decoder->bitrate()
  enable_preprocessing,
  wav_data,
  processed_data,
  num_samples_per_packet,  \* EncodeWav's local
  wav_iterator,
  encoded_raw_features,
  features,
  packet_loss_rate,
  average_burst_length,
  decode_samples_per_packet, \* DecodeFeatures' local num_samples_per_packet
  encoded_index,
  decoded_audio,
  entry_features,          \* history: encoded_raw_features at entry
  entry_audio,             \* history: decoded_audio at entry
  calls,                   \* history: the calls made to collaborators, in order
  packet_size              \* what PacketSize returned

vars == << op, pc, encode_ret, decode_ret, file_ret, sample_rate_hz,
           frame_rate, bitrate,
           enable_preprocessing, wav_data, processed_data,
           num_samples_per_packet, wav_iterator, encoded_raw_features,
           features, decode_samples_per_packet, encoded_index, decoded_audio,
           entry_features, entry_audio, calls, packet_size,
           packet_loss_rate, average_burst_length >>

enc_vars == << processed_data, num_samples_per_packet, wav_iterator,
               encoded_raw_features >>
ret_vars == << encode_ret, decode_ret, file_ret >>
dec_vars == << decode_samples_per_packet, encoded_index, decoded_audio >>
cfg_vars == << op, sample_rate_hz, frame_rate, bitrate, enable_preprocessing,
               wav_data, entry_features, entry_audio, packet_loss_rate,
               average_burst_length >>

\* One call to a collaborator: its name, the offset and size of the span (or
\* the count) passed, the elements of the span, whether it succeeded and what
\* it returned.
Call(fn, at, size, span, ok, out) ==
  [fn |-> fn, at |-> at, size |-> size, span |-> span, ok |-> ok, out |-> out]

Ops == {"EncodeWav", "DecodeFeatures", "EncodeFile", "DecodeFile",
        "RoundTrip", "PacketSize"}
EncodeOps == {"EncodeWav", "EncodeFile", "RoundTrip"}
DecodeOps == {"DecodeFeatures", "DecodeFile"}

EntryPc(o) ==
  CASE o = "EncodeWav" -> "EncodeWav"
    [] o = "RoundTrip" -> "EncodeWav"
    [] o = "DecodeFeatures" -> "DecodeFeatures"
    [] o = "EncodeFile" -> "EncodeFile"
    [] o = "DecodeFile" -> "DecodeFile"
    [] OTHER -> "PacketSize"

Init ==
  /\ op \in Ops
  /\ pc = EntryPc(op)
  /\ encode_ret = "none"
  /\ decode_ret = "none"
  /\ file_ret = "none"
  /\ sample_rate_hz \in (IF op = "PacketSize" THEN {1} ELSE SampleRates)
  /\ frame_rate \in FrameRates
  /\ bitrate \in (IF op = "PacketSize" THEN Bitrates ELSE {3000})
  /\ enable_preprocessing \in (IF op \in EncodeOps THEN BOOLEAN ELSE {FALSE})
  /\ wav_data \in (IF op \in EncodeOps THEN WavInputs ELSE {<< >>})
  /\ processed_data = << >>
  /\ num_samples_per_packet = 0
  /\ wav_iterator = 0
  /\ entry_features \in (IF op = "EncodeWav" THEN EntryContents ELSE {<< >>})
  /\ encoded_raw_features = entry_features
  /\ features \in (IF op \in DecodeOps THEN FeatureInputs ELSE {<< >>})
  /\ packet_loss_rate \in (IF op \in DecodeOps THEN LossRates ELSE {0})
  /\ average_burst_length \in
       (IF op \in DecodeOps THEN BurstLengths ELSE {1})
  /\ decode_samples_per_packet = 0
  /\ encoded_index = 0
  /\ entry_audio \in (IF op = "DecodeFeatures" THEN EntryContents ELSE {<< >>})
  /\ decoded_audio = entry_audio
  /\ calls = << >>
  /\ packet_size = 0

(***************************************************************************)
(* Collaborators.                                                          *)
(***************************************************************************)

\* LyraEncoder::EncodeRaw: no value, or one packet of kNumFeatures values.
\* A packet is written as kNumFeatures copies of one value; two values are
\* enough to tell the packets of different calls apart.
EncodeRawResults ==
  {[ok |-> FALSE, out |-> << >>]}
    \cup {[ok |-> TRUE, out |-> Fill(kNumFeatures, v)] : v \in {0, 1}}

\* LyraDecoder::DecodeSamples(num_samples): no value, or num_samples samples.
DecodeSamplesResults(num_samples) ==
  {[ok |-> FALSE, out |-> << >>]}
    \cup {[ok |-> TRUE, out |-> Fill(num_samples, v)] : v \in {0, 1}}

\* NoOpPreprocessor::Process returns the samples it is given.
Process(samples) == samples

\* PreprocessorInterface::Process: what a preprocessor may return for
\* samples, a buffer of the same or of another length.  The samples
\* themselves (NoOpPreprocessor), other samples in the same number, or other
\* samples and one fewer.
ProcessResults(samples) ==
  { Process(samples),
    [i \in 1..Len(samples) |-> samples[i] + 10],
    [i \in 1..(Len(samples) - 1) |-> samples[i] + 20] }

\* GetNumSamplesPerHop(sample_rate_hz), for a frame rate that is not 0.
GetNumSamplesPerHop(rate) == rate \div frame_rate

NumCalls(fn) == Cardinality({i \in DOMAIN calls : calls[i].fn = fn})

(***************************************************************************)
(* EncodeWav                                                               *)
(***************************************************************************)

\* Where control goes when EncodeWav returns.
AfterEncodeWav(v) ==
  CASE op = "EncodeFile" -> "EncodeFile_check"
    [] op = "RoundTrip" /\ v = "true" -> "RoundTrip_decode"
    [] OTHER -> "done"

\* The stride of the window loop.
EncodeStride == (kNumFramesPerPacket * sample_rate_hz) \div frame_rate

\* In a run with a stride of 0 the loop does not end by itself; the model
\* follows it for this many windows.
MaxWindows == MaxSamples + 2

\* LyraEncoder::Create and the null check.
EncodeWav_Create ==
  /\ pc = "EncodeWav"
  /\ \E created \in BOOLEAN :
       /\ calls' = Append(calls, Call("Create", 0, 0, << >>, created, << >>))
       /\ IF created
            THEN /\ pc' = "EncodeWav_preprocess"
                 /\ UNCHANGED encode_ret
            ELSE /\ pc' = AfterEncodeWav("false")
                 /\ encode_ret' = "false"
  /\ UNCHANGED << cfg_vars, enc_vars, dec_vars, features, decode_ret,
                  file_ret, packet_size >>

\* A run that drops what the preprocessor returned.
EncodeWav_Processed_Discarded(processed) == wav_data

\* processed_data = preprocessor->Process(...).
EncodeWav_Processed(processed) == processed

\* processed_data: a copy of wav_data, replaced by the preprocessor's output
\* when preprocessing is enabled.
EncodeWav_Preprocess ==
  /\ pc = "EncodeWav_preprocess"
  /\ IF enable_preprocessing
       THEN \E processed \in ProcessResults(wav_data) :
              /\ processed_data' = EncodeWav_Processed(processed)
              /\ calls' = Append(calls, Call("Process", 0, Len(wav_data),
                                             wav_data, TRUE, processed))
       ELSE /\ processed_data' = wav_data
            /\ UNCHANGED calls
  /\ pc' = "EncodeWav_stride"
  /\ UNCHANGED << cfg_vars, num_samples_per_packet, wav_iterator,
                  encoded_raw_features, dec_vars, features, ret_vars,
                  packet_size >>

\* num_samples_per_packet.  The division is an int division; by a frame rate
\* of 0 it is undefined: the process is killed (SIGFPE, x86) or the quotient
\* is 0 (AArch64 sdiv).
EncodeWav_Stride ==
  /\ pc = "EncodeWav_stride"
  /\ \/ /\ frame_rate # 0
        /\ num_samples_per_packet' = EncodeStride
        /\ pc' = "EncodeWav_loop"
     \/ /\ frame_rate = 0
        /\ num_samples_per_packet' = 0
        /\ pc' = "EncodeWav_loop"
     \/ /\ frame_rate = 0
        /\ pc' = "crashed"
        /\ UNCHANGED num_samples_per_packet
  /\ wav_iterator' = 0
  /\ UNCHANGED << cfg_vars, processed_data, encoded_raw_features, dec_vars,
                  features, ret_vars, calls, packet_size >>

\* A loop condition that only asks for one more sample.
EncodeWav_LoopCondition_Partial == wav_iterator < Len(processed_data)

\* The loop condition.
EncodeWav_LoopCondition ==
  wav_iterator + num_samples_per_packet <= Len(processed_data)

\* An accumulator that is assigned, not appended to.
EncodeWav_Append_Assign(acc, packet) == packet

\* The accumulator after one packet.
EncodeWav_Append(acc, packet) == acc \o packet

\* A loop that does not look at EncodeRaw's result.
EncodeWav_Failed_Ignored(r) == FALSE

\* The check of EncodeRaw's result: !encoded_or.has_value().
EncodeWav_Failed(r) == ~r.ok

\* One iteration of the window loop.  processed_data.at(wav_iterator) throws
\* std::out_of_range when wav_iterator is the size of the vector, which the
\* loop condition allows with a stride of 0.
EncodeWav_Window ==
  /\ pc = "EncodeWav_loop"
  /\ EncodeWav_LoopCondition
  /\ NumCalls("EncodeRaw") < MaxWindows
  /\ \/ /\ wav_iterator >= Len(processed_data)
        /\ pc' = "threw"
        /\ UNCHANGED << calls, encoded_raw_features, wav_iterator, encode_ret >>
     \/ /\ wav_iterator < Len(processed_data)
        /\ \E r \in EncodeRawResults :
             /\ calls' = Append(calls,
                   Call("EncodeRaw", wav_iterator, num_samples_per_packet,
                        SpanOf(processed_data, wav_iterator,
                               num_samples_per_packet), r.ok, r.out))
             /\ IF EncodeWav_Failed(r)
                  THEN /\ pc' = AfterEncodeWav("false")
                       /\ encode_ret' = "false"
                       /\ UNCHANGED << encoded_raw_features, wav_iterator >>
                  ELSE /\ encoded_raw_features' =
                            EncodeWav_Append(encoded_raw_features, r.out)
                       /\ wav_iterator' = wav_iterator + num_samples_per_packet
                       /\ UNCHANGED << pc, encode_ret >>
  /\ UNCHANGED << cfg_vars, processed_data, num_samples_per_packet, dec_vars,
                  features, decode_ret, file_ret, packet_size >>

\* The end of the loop: the throughput lines (over wav_data.size()) and
\* return true.
EncodeWav_Finish ==
  /\ pc = "EncodeWav_loop"
  /\ ~EncodeWav_LoopCondition
  /\ calls' = Append(calls, Call("LOG", 0, Len(wav_data), << >>, TRUE, << >>))
  /\ pc' = AfterEncodeWav("true")
  /\ encode_ret' = "true"
  /\ UNCHANGED << cfg_vars, enc_vars, dec_vars, features, decode_ret,
                  file_ret, packet_size >>

(***************************************************************************)
(* DecodeFeatures                                                          *)
(***************************************************************************)

\* Where control goes when DecodeFeatures returns.
AfterDecodeFeatures == IF op = "DecodeFile" THEN "DecodeFile_check" ELSE "done"

\* The number of samples asked of the decoder per packet.
DecodeRequest == kNumFramesPerPacket * GetNumSamplesPerHop(sample_rate_hz)

\* num_samples_per_packet.  GetNumSamplesPerHop divides by the frame rate as
\* EncodeWav does, with the same outcomes for a frame rate of 0.
DecodeFeatures_Stride ==
  /\ pc = "DecodeFeatures"
  /\ \/ /\ frame_rate # 0
        /\ decode_samples_per_packet' = DecodeRequest
        /\ pc' = "DecodeFeatures_loop"
     \/ /\ frame_rate = 0
        /\ decode_samples_per_packet' = 0
        /\ pc' = "DecodeFeatures_loop"
     \/ /\ frame_rate = 0
        /\ pc' = "crashed"
        /\ UNCHANGED decode_samples_per_packet
  /\ encoded_index' = 0
  /\ UNCHANGED << cfg_vars, enc_vars, decoded_audio, features, ret_vars,
                  calls, packet_size >>

\* A loop that takes a packet loss rate above 0 as the loss of every packet.
DecodeFeatures_LoopCondition_Lossy ==
  encoded_index < Len(features) /\ packet_loss_rate = 0

\* The loop condition.
DecodeFeatures_LoopCondition == encoded_index < Len(features)

\* An accumulator that holds the samples of the last packet only.
DecodeFeatures_Append_Overwrite(acc, samples) == samples

\* An accumulator that grows at the front.
DecodeFeatures_Append_Front(acc, samples) == samples \o acc

\* The accumulator after one packet.
DecodeFeatures_Append(acc, samples) == acc \o samples

\* A loop that does not look at SetEncodedFeatures' result.
DecodeFeatures_SetFailed_Ignored(ok) == FALSE

\* The checks of the decoder's answers: !decoder->SetEncodedFeatures(...)
\* and !decoded_or.has_value().
DecodeFeatures_SetFailed(ok) == ~ok

\* A loop that does not look at DecodeSamples' result.
DecodeFeatures_DecodeFailed_Ignored(r) == FALSE

DecodeFeatures_DecodeFailed(r) == ~r.ok

\* One iteration of the packet loop: SetEncodedFeatures on the span of
\* kNumFeatures values at encoded_index, then DecodeSamples.  A span that
\* runs past the end of features makes the decoder read outside the vector:
\* it reads whatever lies there (and answers as it may), or the process is
\* killed.
DecodeFeatures_Packet ==
  /\ pc = "DecodeFeatures_loop"
  /\ DecodeFeatures_LoopCondition
  /\ \/ \E set_ok \in BOOLEAN,
           r \in DecodeSamplesResults(decode_samples_per_packet) :
          LET set == Call("SetEncodedFeatures", encoded_index, kNumFeatures,
                          SpanOf(features, encoded_index, kNumFeatures),
                          set_ok, << >>)
              dec == Call("DecodeSamples", 0, decode_samples_per_packet,
                          << >>, r.ok, r.out)
          IN  IF DecodeFeatures_SetFailed(set_ok)
                THEN /\ calls' = Append(calls, set)
                     /\ pc' = AfterDecodeFeatures
                     /\ decode_ret' = "false"
                     /\ UNCHANGED << encoded_index, decoded_audio >>
                ELSE /\ calls' = calls \o << set, dec >>
                     /\ IF DecodeFeatures_DecodeFailed(r)
                          THEN /\ pc' = AfterDecodeFeatures
                               /\ decode_ret' = "false"
                               /\ UNCHANGED << encoded_index, decoded_audio >>
                          ELSE /\ decoded_audio' =
                                    DecodeFeatures_Append(decoded_audio, r.out)
                               /\ encoded_index' = encoded_index + kNumFeatures
                               /\ UNCHANGED << pc, decode_ret >>
     \/ /\ encoded_index + kNumFeatures > Len(features)
        /\ pc' = "crashed"
        /\ UNCHANGED << calls, encoded_index, decoded_audio, decode_ret >>
  /\ UNCHANGED << cfg_vars, enc_vars, decode_samples_per_packet, features,
                  encode_ret, file_ret, packet_size >>

\* The end of the loop: the throughput lines (over decoded_audio->size()) and
\* return true.
DecodeFeatures_Finish ==
  /\ pc = "DecodeFeatures_loop"
  /\ ~DecodeFeatures_LoopCondition
  /\ calls' = Append(calls,
                     Call("LOG", 0, Len(decoded_audio), << >>, TRUE, << >>))
  /\ pc' = AfterDecodeFeatures
  /\ decode_ret' = "true"
  /\ UNCHANGED << cfg_vars, enc_vars, dec_vars, features, encode_ret,
                  file_ret, packet_size >>

(***************************************************************************)
(* EncodeFile                                                              *)
(***************************************************************************)

\* Read16BitWavFileToVector and the status check; on success the samples and
\* the sample rate of the file go to EncodeWav with an empty accumulator.
EncodeFile_Read ==
  /\ pc = "EncodeFile"
  /\ \E ok \in BOOLEAN :
       /\ calls' = Append(calls,
            Call("Read16BitWavFileToVector", 0, 0, << >>, ok,
                 IF ok THEN wav_data ELSE << >>))
       /\ IF ok
            THEN /\ pc' = "EncodeWav"
                 /\ UNCHANGED file_ret
            ELSE /\ pc' = "done"
                 /\ file_ret' = "false"
  /\ encoded_raw_features' = << >>
  /\ UNCHANGED << cfg_vars, processed_data, num_samples_per_packet,
                  wav_iterator, dec_vars, features, encode_ret, decode_ret,
                  packet_size >>

\* An EncodeFile that does not look at EncodeWav's result.
EncodeFile_EncodeFailed_Ignored == FALSE

\* The check of EncodeWav's result.
EncodeFile_EncodeFailed == encode_ret # "true"

EncodeFile_Check ==
  /\ pc = "EncodeFile_check"
  /\ IF EncodeFile_EncodeFailed
       THEN /\ pc' = "done"
            /\ file_ret' = "false"
       ELSE /\ pc' = "EncodeFile_save"
            /\ UNCHANGED file_ret
  /\ UNCHANGED << cfg_vars, enc_vars, dec_vars, features, encode_ret,
                  decode_ret, calls, packet_size >>

\* cnpy::npz_save of num_frames rows of kNumFeatures values, then return
\* true.  npz_save returns nothing: it fails by not returning (an exception
\* or an abort leaves EncodeFile without a return value).
EncodeFile_Save ==
  /\ pc = "EncodeFile_save"
  /\ LET num_frames == Len(encoded_raw_features) \div kNumFeatures
         save(ok) == Call("npz_save", num_frames, kNumFeatures,
                          encoded_raw_features, ok, << >>)
     IN
     \/ /\ calls' = Append(calls, save(TRUE))
        /\ pc' = "done"
        /\ file_ret' = "true"
     \/ /\ calls' = Append(calls, save(FALSE))
        /\ pc' = "threw"
        /\ UNCHANGED file_ret
  /\ UNCHANGED << cfg_vars, enc_vars, dec_vars, features, encode_ret,
                  decode_ret, packet_size >>

(***************************************************************************)
(* DecodeFile                                                              *)
(***************************************************************************)

\* LyraDecoder::Create and the null check.
DecodeFile_Create ==
  /\ pc = "DecodeFile"
  /\ \E created \in BOOLEAN :
       /\ calls' = Append(calls, Call("Create", 0, 0, << >>, created, << >>))
       /\ IF created
            THEN /\ pc' = "DecodeFile_load"
                 /\ UNCHANGED file_ret
            ELSE /\ pc' = "done"
                 /\ file_ret' = "false"
  /\ UNCHANGED << cfg_vars, enc_vars, dec_vars, features, encode_ret,
                  decode_ret, packet_size >>

\* cnpy::npz_load, which throws when it cannot load; what it loaded goes to
\* DecodeFeatures with an empty decoded_audio.
DecodeFile_Load ==
  /\ pc = "DecodeFile_load"
  /\ \/ /\ calls' = Append(calls,
                           Call("npz_load", 0, 0, << >>, TRUE, features))
        /\ pc' = "DecodeFeatures"
     \/ /\ calls' = Append(calls, Call("npz_load", 0, 0, << >>, FALSE, << >>))
        /\ pc' = "threw"
  /\ decoded_audio' = << >>
  /\ UNCHANGED << cfg_vars, enc_vars, decode_samples_per_packet,
                  encoded_index, features, ret_vars, packet_size >>

\* A DecodeFile that does not look at DecodeFeatures' result.
DecodeFile_DecodeFailed_Ignored == FALSE

\* The check of DecodeFeatures' result.
DecodeFile_DecodeFailed == decode_ret # "true"

DecodeFile_Check ==
  /\ pc = "DecodeFile_check"
  /\ IF DecodeFile_DecodeFailed
       THEN /\ pc' = "done"
            /\ file_ret' = "false"
       ELSE /\ pc' = "DecodeFile_write"
            /\ UNCHANGED file_ret
  /\ UNCHANGED << cfg_vars, enc_vars, dec_vars, features, encode_ret,
                  decode_ret, calls, packet_size >>

\* A DecodeFile that does not look at the write status.
DecodeFile_WriteResult_Ignored(ok) == "true"

\* Write16BitWavFileFromVector and the status check.
DecodeFile_WriteResult(ok) == IF ok THEN "true" ELSE "false"

DecodeFile_Write ==
  /\ pc = "DecodeFile_write"
  /\ \E ok \in BOOLEAN :
       /\ calls' = Append(calls,
            Call("Write16BitWavFileFromVector", 0, Len(decoded_audio),
                 decoded_audio, ok, << >>))
       /\ file_ret' = DecodeFile_WriteResult(ok)
  /\ pc' = "done"
  /\ UNCHANGED << cfg_vars, enc_vars, dec_vars, features, encode_ret,
                  decode_ret, packet_size >>

(***************************************************************************)
(* Encoding, then decoding what was encoded at the same sample rate.       *)
(***************************************************************************)

\* The features EncodeWav produced are the features DecodeFeatures is given.
RoundTrip_Decode ==
  /\ pc = "RoundTrip_decode"
  /\ features' = encoded_raw_features
  /\ pc' = "DecodeFeatures"
  /\ UNCHANGED << cfg_vars, enc_vars, dec_vars, ret_vars, calls,
                  packet_size >>

(***************************************************************************)
(* PacketSize: single precision arithmetic.                                *)
(*                                                                         *)
(* A positive float is [m, e], the value m * 2^e with 2^23 <= m < 2^24;    *)
(* zero is [0, 0].  Every operation rounds its exact result to the nearest *)
(* such value, ties to the even significand (IEEE 754 binary32; the values *)
(* reached here are far from its exponent limits).                         *)
(***************************************************************************)

RECURSIVE Pow2(_)
Pow2(n) == IF n = 0 THEN 1 ELSE 2 * Pow2(n - 1)

\* The float nearest to (num / den) * 2^e, for integers num >= 0, den > 0.
RECURSIVE F32Round(_, _, _)
F32Round(num, den, e) ==
  IF num = 0 THEN [m |-> 0, e |-> 0]
  ELSE IF num \div den >= 16777216 THEN F32Round(num, 2 * den, e + 1)
  ELSE IF num \div den < 8388608 THEN F32Round(2 * num, den, e - 1)
  ELSE LET q == num \div den
           r == num % den
           up == 2 * r > den \/ (2 * r = den /\ q % 2 = 1)
       IN  IF ~up THEN [m |-> q, e |-> e]
           ELSE IF q + 1 = 16777216 THEN [m |-> 8388608, e |-> e + 1]
           ELSE [m |-> q + 1, e |-> e]

\* static_cast<float>(n).
F32FromInt(n) == F32Round(n, 1, 0)
\* x / n and x * n for a float x and an int n that converts exactly.
F32DivInt(x, n) == F32Round(x.m, n, x.e)
F32MulInt(x, n) == F32Round(x.m * n, 1, x.e)
\* static_cast<int>(std::ceil(x)).
F32Ceil(x) ==
  IF x.m = 0 THEN 0
  ELSE IF x.e >= 0 THEN x.m * Pow2(x.e)
  ELSE IF 0 - x.e >= 30 THEN 1
  ELSE (x.m + Pow2(0 - x.e) - 1) \div Pow2(0 - x.e)

\* PacketSize for a frame rate that is not 0.
PacketSize(rate_bits, rate_frames) ==
  LET bits_per_packet ==
        F32MulInt(F32DivInt(F32FromInt(rate_bits), rate_frames),
                  kNumFramesPerPacket)
      bytes_per_packet == F32DivInt(bits_per_packet, CHAR_BIT)
  IN  F32Ceil(bytes_per_packet)

\* With a frame rate of 0 the quotient is an infinity (a NaN for a bitrate of
\* 0), and converting that to int is undefined: cvttss2si gives INT_MIN;
\* fcvtzs saturates an infinity to INT_MAX and gives 0 for a NaN.
PacketSizeUndefined(rate_bits) ==
  {0 - 2147483647 - 1} \cup (IF rate_bits = 0 THEN {0} ELSE {2147483647})

PacketSize_Call ==
  /\ pc = "PacketSize"
  /\ \/ /\ frame_rate # 0
        /\ packet_size' = PacketSize(bitrate, frame_rate)
     \/ /\ frame_rate = 0
        /\ packet_size' \in PacketSizeUndefined(bitrate)
  /\ pc' = "done"
  /\ UNCHANGED << cfg_vars, enc_vars, dec_vars, features, ret_vars, calls >>

(***************************************************************************)
(* The specification.                                                      *)
(***************************************************************************)

Next ==
  \/ EncodeWav_Create
  \/ EncodeWav_Preprocess
  \/ EncodeWav_Stride
  \/ EncodeWav_Window
  \/ EncodeWav_Finish
  \/ DecodeFeatures_Stride
  \/ DecodeFeatures_Packet
  \/ DecodeFeatures_Finish
  \/ EncodeFile_Read
  \/ EncodeFile_Check
  \/ EncodeFile_Save
  \/ DecodeFile_Create
  \/ DecodeFile_Load
  \/ DecodeFile_Check
  \/ DecodeFile_Write
  \/ RoundTrip_Decode
  \/ PacketSize_Call

Spec == Init /\ [][Next]_vars

\* The code is sequential and nothing suspends it: a run that can take a
\* step takes one.  What the engine answers stays free.
FairSpec == Spec /\ WF_vars(Next)

(***************************************************************************)
(* Properties.                                                             *)
(***************************************************************************)

CallsTo(fn) == SelectSeq(calls, LAMBDA c : c.fn = fn)
EncodeRawCalls == CallsTo("EncodeRaw")
SetCalls == CallsTo("SetEncodedFeatures")
DecodeCalls == CallsTo("DecodeSamples")

\* What a sequence of calls returned, end to end (a failed call returned
\* nothing).
RECURSIVE Outputs(_)
Outputs(cs) == IF cs = << >> THEN << >> ELSE Head(cs).out \o Outputs(Tail(cs))

First(cs, n) == SubSeq(cs, 1, n)
AllOk(cs) == \A i \in DOMAIN cs : cs[i].ok
Created == \E i \in DOMAIN calls : calls[i].fn = "Create" /\ calls[i].ok

\* Packet j (from 0) of a DecodeFeatures run failed: its SetEncodedFeatures
\* returned false or its DecodeSamples returned no value.
PacketFailed(j) ==
  /\ j + 1 <= Len(SetCalls)
  /\ \/ ~SetCalls[j + 1].ok
     \/ j + 1 <= Len(DecodeCalls) /\ ~DecodeCalls[j + 1].ok

\* C1: if EncodeRaw fails on window j (from 0), EncodeWav has returned false
\* and the values it put into the output FeatureVector are exactly the
\* j * kNumFeatures values of the packets of windows 0..j-1, in order, after
\* what the vector held at entry (nothing, in EncodeFile); the failing window
\* is the last one given to the encoder.
C1_EncodeFailureKeepsPriorPackets ==
  \A j \in 0..(Len(EncodeRawCalls) - 1) :
    ~EncodeRawCalls[j + 1].ok =>
      /\ encode_ret = "false"
      /\ j + 1 = Len(EncodeRawCalls)
      /\ Len(encoded_raw_features) = Len(entry_features) + j * kNumFeatures
      /\ encoded_raw_features =
           entry_features \o Outputs(First(EncodeRawCalls, j))

\* The third window fails after two different packets, into an empty vector.
C1_Witness ==
  /\ Len(EncodeRawCalls) = 3
  /\ ~EncodeRawCalls[3].ok
  /\ EncodeRawCalls[1].out # EncodeRawCalls[2].out
  /\ encode_ret = "false"
  /\ Len(encoded_raw_features) = 2 * kNumFeatures

\* C3: with num_samples_per_packet > 0 and a buffer (wav_data, or what the
\* preprocessor made of it) of m whole windows and r more samples, every window given to the encoder is one of the m whole
\* windows [i * num_samples_per_packet, (i + 1) * num_samples_per_packet), in
\* order, so none of the trailing r samples is passed; and once EncodeWav has
\* returned from an encoder that was created and never failed, it returned
\* true after exactly m windows (none for a buffer shorter than one window).
C3_TrailingSamplesDropped ==
  num_samples_per_packet > 0 =>
    LET n == num_samples_per_packet
        m == Len(processed_data) \div n
    IN  /\ Len(EncodeRawCalls) <= m
        /\ \A i \in DOMAIN EncodeRawCalls :
             /\ EncodeRawCalls[i].at = (i - 1) * n
             /\ EncodeRawCalls[i].size = n
             /\ EncodeRawCalls[i].at + EncodeRawCalls[i].size <= m * n
             /\ EncodeRawCalls[i].span =
                  SubSeq(processed_data, (i - 1) * n + 1, i * n)
        /\ (encode_ret # "none" /\ Created /\ AllOk(EncodeRawCalls)) =>
             /\ encode_ret = "true"
             /\ Len(EncodeRawCalls) = m

\* Five samples in windows of two: two windows, one sample dropped.
C3_Witness ==
  /\ encode_ret = "true"
  /\ num_samples_per_packet > 1
  /\ Len(processed_data) = 2 * num_samples_per_packet + 1
  /\ Len(EncodeRawCalls) = 2

\* C4: for a buffer (wav_data, or what the preprocessor made of it) of
\* exactly m windows (num_samples_per_packet > 0), once
\* EncodeWav has returned from an encoder that was created and never failed,
\* it returned true and put exactly m * kNumFeatures values into the output
\* FeatureVector.
C4_WholeWindowsAllEncoded ==
  ( /\ encode_ret # "none"
    /\ Created
    /\ AllOk(EncodeRawCalls)
    /\ num_samples_per_packet > 0
    /\ Len(processed_data) % num_samples_per_packet = 0 ) =>
      LET m == Len(processed_data) \div num_samples_per_packet
      IN  /\ encode_ret = "true"
          /\ Len(encoded_raw_features) =
               Len(entry_features) + m * kNumFeatures
          /\ encoded_raw_features = entry_features \o Outputs(EncodeRawCalls)

\* Two whole windows, two packets.
C4_Witness ==
  /\ op = "EncodeWav"
  /\ encode_ret = "true"
  /\ num_samples_per_packet > 0
  /\ Len(processed_data) = 2 * num_samples_per_packet
  /\ Len(encoded_raw_features) = Len(entry_features) + 2 * kNumFeatures

\* C5: for features of exactly m packets, once DecodeFeatures has returned
\* from a decoder that never failed, it returned true, it gave the decoder
\* the packets [i * kNumFeatures, (i + 1) * kNumFeatures) in order, and it
\* put exactly m * num_samples_per_packet samples into the output
\* SampleBuffer: what the m DecodeSamples calls returned, in call order.
C5_WholePacketsAllDecoded ==
  ( /\ decode_ret # "none"
    /\ AllOk(SetCalls)
    /\ AllOk(DecodeCalls)
    /\ Len(features) % kNumFeatures = 0 ) =>
      LET m == Len(features) \div kNumFeatures
      IN  /\ decode_ret = "true"
          /\ Len(SetCalls) = m
          /\ Len(DecodeCalls) = m
          /\ \A i \in 1..m :
               /\ SetCalls[i].at = (i - 1) * kNumFeatures
               /\ SetCalls[i].span =
                    SubSeq(features, (i - 1) * kNumFeatures + 1,
                           i * kNumFeatures)
               /\ DecodeCalls[i].size = decode_samples_per_packet
          /\ Len(decoded_audio) =
               Len(entry_audio) + m * decode_samples_per_packet
          /\ decoded_audio = entry_audio \o Outputs(DecodeCalls)

\* Two packets decoded to different samples.
C5_Witness ==
  /\ op = "DecodeFeatures"
  /\ decode_ret = "true"
  /\ Len(features) = 2 * kNumFeatures
  /\ decode_samples_per_packet > 0
  /\ Len(DecodeCalls) = 2
  /\ DecodeCalls[1].out # DecodeCalls[2].out

\* C6: if packet j (from 0) fails, DecodeFeatures has returned false, packet
\* j is the last packet given to the decoder, and the samples put into the
\* output SampleBuffer are exactly the j * num_samples_per_packet samples of
\* packets 0..j-1.
C6_DecodeFailureKeepsPriorSamples ==
  \A j \in 0..(Len(SetCalls) - 1) :
    PacketFailed(j) =>
      /\ decode_ret = "false"
      /\ j + 1 = Len(SetCalls)
      /\ Len(DecodeCalls) <= j + 1
      /\ Len(decoded_audio) =
           Len(entry_audio) + j * decode_samples_per_packet
      /\ decoded_audio = entry_audio \o Outputs(First(DecodeCalls, j))

\* The second packet is set but not decoded, after one decoded packet.
C6_Witness ==
  /\ Len(SetCalls) = 2
  /\ SetCalls[2].ok
  /\ Len(DecodeCalls) = 2
  /\ ~DecodeCalls[2].ok
  /\ decode_ret = "false"
  /\ decode_samples_per_packet > 0
  /\ Len(decoded_audio) = Len(entry_audio) + decode_samples_per_packet

\* The first packet is refused by SetEncodedFeatures.
C6_WitnessSet ==
  /\ Len(SetCalls) = 1
  /\ ~SetCalls[1].ok
  /\ decode_ret = "false"
  /\ decoded_audio = entry_audio

FileOps == {"EncodeFile", "DecodeFile"}
IsIO(c) == c.fn \in {"Read16BitWavFileToVector", "npz_save", "npz_load",
                     "Write16BitWavFileFromVector"}
IsWrite(c) == c.fn \in {"npz_save", "Write16BitWavFileFromVector"}
IOCalls == SelectSeq(calls, IsIO)
CreateFailed == \E i \in DOMAIN calls : calls[i].fn = "Create" /\ ~calls[i].ok
\* Call i comes after a successful Create.
AfterCreate(i) == \E j \in 1..(i - 1) : calls[j].fn = "Create" /\ calls[j].ok

\* C2: (for a frame rate that is not 0) no span given to SetEncodedFeatures
\* runs past the end of features, and features whose length is not a multiple
\* of kNumFeatures are refused before any packet is given to the decoder.
C2_ShapeCheckedBeforeIterating ==
  frame_rate > 0 =>
    /\ \A i \in DOMAIN SetCalls :
         SetCalls[i].at + SetCalls[i].size <= Len(features)
    /\ Len(features) % kNumFeatures # 0 =>
         /\ Len(SetCalls) = 0
         /\ decode_ret # "true"

\* C7, as claimed: when the creation of the engine fails, EncodeFile and
\* DecodeFile return false with no container read or write made.
C7_CreateCheckedBeforeAnyIO ==
  (op \in FileOps /\ CreateFailed) =>
    /\ IOCalls = << >>
    /\ pc = "done" => file_ret = "false"

\* C7, amended: DecodeFile creates the decoder before any container read or
\* write, and returns false without any when the creation fails.  EncodeFile
\* reads the audio container first (the encoder is created from the sample
\* rate read from it): every container write comes after the creation, and
\* when the creation fails EncodeFile returns false having made the audio
\* read and no other container call.
C7_CreateCheckedBeforeOutput ==
  /\ op = "DecodeFile" =>
       /\ \A i \in DOMAIN calls : IsIO(calls[i]) => AfterCreate(i)
       /\ CreateFailed =>
            /\ IOCalls = << >>
            /\ pc = "done"
            /\ file_ret = "false"
  /\ op = "EncodeFile" =>
       /\ \A i \in DOMAIN calls :
            /\ IsWrite(calls[i]) => AfterCreate(i)
            /\ calls[i].fn = "Create" =>
                 /\ i = 2
                 /\ calls[1].fn = "Read16BitWavFileToVector"
                 /\ calls[1].ok
       /\ CreateFailed =>
            /\ Len(IOCalls) = 1
            /\ Len(calls) = 2
            /\ pc \in {"EncodeFile_check", "done"}
            /\ file_ret # "true"
            /\ pc = "done" => file_ret = "false"

\* EncodeFile has returned false after the audio read and a failed creation.
C7_Witness ==
  /\ op = "EncodeFile"
  /\ pc = "done"
  /\ file_ret = "false"
  /\ CreateFailed
  /\ Len(calls) = 2

CeilDiv(a, b) == (a + b - 1) \div b

\* C10: for a frame rate F > 0, PacketSize returns
\* ceil(B * kNumFramesPerPacket / (F * 8)) for the bitrate B.
C10_PacketSizeIsCeiling ==
  (op = "PacketSize" /\ pc = "done" /\ frame_rate > 0) =>
    packet_size =
      CeilDiv(bitrate * kNumFramesPerPacket, frame_rate * CHAR_BIT)

\* C11: with a frame rate of 0 nothing is divided by it.  EncodeWav returns
\* false before it computes num_samples_per_packet, so it never reaches the
\* window loop, gives the encoder no window and does not return true (nor is
\* the process killed by the division); PacketSize does not return a size.
C11_ZeroFrameRateFailsFast ==
  frame_rate = 0 =>
    /\ op \in {"EncodeWav", "EncodeFile"} =>
         /\ pc \notin {"EncodeWav_loop", "crashed", "threw"}
         /\ EncodeRawCalls = << >>
         /\ encode_ret # "true"
    /\ op = "PacketSize" => pc # "done"

\* The calls DecodeFeatures made to the decoder, in order.
DecoderCalls ==
  SelectSeq(calls, LAMBDA c : c.fn \in {"SetEncodedFeatures", "DecodeSamples"})

\* C12: the calls to the decoder alternate, SetEncodedFeatures first: call
\* 2j+1 is the SetEncodedFeatures of packet j, at offset j * kNumFeatures,
\* and comes after the DecodeSamples of packet j-1 returned samples; call 2j+2
\* is the DecodeSamples of packet j and comes after its SetEncodedFeatures
\* returned true.  A SetEncodedFeatures that returned true is followed by its
\* DecodeSamples; one that returned false is the last call to the decoder.
C12_StrictPerPacketOrder ==
  LET e == DecoderCalls
  IN  \A k \in DOMAIN e :
        IF k % 2 = 1
          THEN /\ e[k].fn = "SetEncodedFeatures"
               /\ e[k].at = ((k - 1) \div 2) * kNumFeatures
               /\ k > 1 => e[k - 1].ok
               /\ IF e[k].ok THEN k < Len(e) ELSE k = Len(e)
          ELSE /\ e[k].fn = "DecodeSamples"
               /\ e[k - 1].ok
               /\ e[k].size = decode_samples_per_packet

\* The first packet is set and decoded, the second is refused.
C12_Witness ==
  /\ Len(DecoderCalls) = 3
  /\ DecoderCalls[2].ok
  /\ ~DecoderCalls[3].ok
  /\ decode_ret = "false"

\* No engine call follows a failed one, no two windows given to the encoder
\* start at the same sample and no two packets given to the decoder start at
\* the same feature.
NoCallAfterFailure ==
  /\ \A i \in DOMAIN EncodeRawCalls :
       ~EncodeRawCalls[i].ok => i = Len(EncodeRawCalls)
  /\ \A k \in DOMAIN DecoderCalls :
       ~DecoderCalls[k].ok => k = Len(DecoderCalls)
  /\ ~AllOk(EncodeRawCalls) => DecoderCalls = << >>
NoWindowTwice ==
  \A i, j \in DOMAIN EncodeRawCalls :
    i < j => EncodeRawCalls[i].at < EncodeRawCalls[j].at
NoPacketTwice ==
  \A i, j \in DOMAIN SetCalls : i < j => SetCalls[i].at < SetCalls[j].at

\* C13: (for a frame rate that is not 0) once an engine call has failed no
\* further engine call is made, and no window and no packet is given to the
\* engine more than once.
C13_AbortOnFirstFailureNoRetry ==
  frame_rate > 0 => NoCallAfterFailure /\ NoWindowTwice /\ NoPacketTwice

\* What does hold of C13: the abort on the first failure in all runs, and no
\* window or packet given twice in the runs whose stride is not 0.
C13_NoRetryWithPositiveStride ==
  /\ NoCallAfterFailure
  /\ NoPacketTwice
  /\ num_samples_per_packet > 0 => NoWindowTwice

WriteCalls == SelectSeq(calls, IsWrite)

\* C14: in EncodeFile and DecodeFile, when EncodeWav / DecodeFeatures has
\* returned false the output container is never written (no npz_save, no
\* Write16BitWavFileFromVector) and the operation returns false, whatever the
\* accumulator holds; a container write is only made after the pipeline
\* returned true.
C14_PartialOutputNeverWritten ==
  op \in FileOps =>
    /\ (encode_ret = "false" \/ decode_ret = "false") =>
         /\ WriteCalls = << >>
         /\ pc \in {"EncodeFile_check", "DecodeFile_check", "done"}
         /\ file_ret # "true"
         /\ pc = "done" => file_ret = "false"
    /\ WriteCalls # << >> =>
         /\ op = "EncodeFile" => encode_ret = "true"
         /\ op = "DecodeFile" => decode_ret = "true"

\* DecodeFile has returned false with the samples of one packet decoded and
\* nothing written.
C14_Witness ==
  /\ op = "DecodeFile"
  /\ pc = "done"
  /\ decode_ret = "false"
  /\ file_ret = "false"
  /\ decoded_audio # << >>
  /\ WriteCalls = << >>

\* C15: (for a frame rate that is not 0 and features of whole packets) once
\* EncodeWav or DecodeFeatures has returned from a run that gave the engine at
\* least one window or packet,
\* the throughput lines have been logged once, whether it returned true or
\* false.
C15_ThroughputAlwaysReported ==
  frame_rate > 0 =>
    /\ (op \in {"EncodeWav", "EncodeFile"} /\ encode_ret # "none"
          /\ EncodeRawCalls # << >>) => NumCalls("LOG") = 1
    /\ (op \in DecodeOps /\ decode_ret # "none" /\ SetCalls # << >>
          /\ Len(features) % kNumFeatures = 0) => NumCalls("LOG") = 1

ProcessCalls == CallsTo("Process")

\* The buffer the windows of a run are to be taken from: what Process
\* returned, or wav_data in a run without a Process call.
WindowedBuffer ==
  IF ProcessCalls # << >> THEN ProcessCalls[1].out ELSE wav_data

\* C16: with preprocessing enabled Process is called once (at most once
\* before, and exactly once when any window has been given to the encoder),
\* on the whole of wav_data and before every EncodeRaw; with preprocessing
\* disabled it is not called.  In both cases window i (from 0) is the slice
\* [i * num_samples_per_packet, (i + 1) * num_samples_per_packet) of the
\* windowed buffer (what Process returned, resp. wav_data) and a run that
\* returned true from an encoder that never failed has given it all the whole
\* windows of that buffer: the windows of a run without preprocessing are
\* those of a run whose preprocessor returns wav_data.
C16_PreprocessOnceOnWholeBuffer ==
  LET n == num_samples_per_packet
  IN  /\ Len(ProcessCalls) <= 1
      /\ ~enable_preprocessing => ProcessCalls = << >>
      /\ (enable_preprocessing /\ EncodeRawCalls # << >>) =>
           Len(ProcessCalls) = 1
      /\ \A i \in DOMAIN calls :
           calls[i].fn = "Process" =>
             /\ calls[i].at = 0
             /\ calls[i].size = Len(wav_data)
             /\ calls[i].span = wav_data
             /\ \A j \in 1..(i - 1) : calls[j].fn # "EncodeRaw"
      /\ \A k \in DOMAIN EncodeRawCalls :
           /\ EncodeRawCalls[k].at = (k - 1) * n
           /\ EncodeRawCalls[k].size = n
           /\ k * n <= Len(WindowedBuffer)
           /\ EncodeRawCalls[k].span = SpanOf(WindowedBuffer, (k - 1) * n, n)
      /\ (encode_ret = "true" /\ n > 0) =>
           Len(EncodeRawCalls) = Len(WindowedBuffer) \div n

\* The preprocessor returned one sample fewer, and with it one window fewer:
\* the encoder was given the one window of the processed buffer.
C16_Witness ==
  /\ enable_preprocessing
  /\ encode_ret = "true"
  /\ num_samples_per_packet = 2
  /\ Len(wav_data) = 4
  /\ Len(ProcessCalls) = 1
  /\ Len(ProcessCalls[1].out) = 3
  /\ Len(EncodeRawCalls) = 1
  /\ EncodeRawCalls[1].span # SubSeq(wav_data, 1, 2)

\* C17: (for a frame rate that is not 0 and features of whole packets) what
\* a run of DecodeFeatures does is fixed by features, the decoder's sample
\* and frame rates, the contents of decoded_audio at entry and the decoder's
\* answers, whatever packet_loss_rate and average_burst_length are.  The
\* calls to the decoder are SetEncodedFeatures on packet 0, DecodeSamples of
\* kNumFramesPerPacket hops, SetEncodedFeatures on packet 1, ... up to the
\* first call that failed; decoded_audio is its contents at entry followed by
\* what the DecodeSamples calls returned; and DecodeFeatures returns false
\* when the last call failed and true when all the packets of features were
\* decoded.  Two runs that agree on these and differ in the loss parameters
\* make the same calls, return the same value and leave the same samples.
C17_LossParametersUnused ==
  (frame_rate > 0 /\ Len(features) % kNumFeatures = 0) =>
    LET e == DecoderCalls
        m == Len(features) \div kNumFeatures
    IN  /\ \A k \in DOMAIN e :
             /\ ~e[k].ok => k = Len(e)
             /\ IF k % 2 = 1
                  THEN /\ e[k].fn = "SetEncodedFeatures"
                       /\ e[k].at = ((k - 1) \div 2) * kNumFeatures
                       /\ e[k].size = kNumFeatures
                       /\ e[k].span = SpanOf(features, e[k].at, kNumFeatures)
                  ELSE /\ e[k].fn = "DecodeSamples"
                       /\ e[k].size = DecodeRequest
        /\ Len(e) <= 2 * m
        /\ decoded_audio = entry_audio \o Outputs(DecodeCalls)
        /\ decode_ret = "false" <=> (e # << >> /\ ~e[Len(e)].ok)
        /\ decode_ret = "true" => (AllOk(e) /\ Len(e) = 2 * m)
        /\ (pc = "DecodeFeatures_loop" /\ AllOk(e)) =>
             encoded_index = kNumFeatures * Len(DecodeCalls)
        /\ pc # "crashed"

\* Two packets decoded with a loss rate of 1 and bursts of 2.
C17_Witness ==
  /\ op = "DecodeFeatures"
  /\ packet_loss_rate = 1
  /\ average_burst_length = 2
  /\ decode_ret = "true"
  /\ Len(SetCalls) = 2
  /\ Len(decoded_audio) > Len(entry_audio)

\* C18: (for a frame rate that is not 0) the window loop of EncodeWav comes
\* to its end whatever the encoder answers, so every iteration that stays in
\* the loop moves wav_iterator towards the end of the buffer.  The loop
\* condition reads wav_iterator, num_samples_per_packet and the size of
\* processed_data only: after an iteration that leaves wav_iterator where it
\* was the loop is where it was before, and goes on as long as the encoder
\* returns packets.
C18_WindowLoopAdvances ==
  [][(frame_rate > 0 /\ pc = "EncodeWav_loop" /\ pc' = "EncodeWav_loop") =>
       wav_iterator' > wav_iterator]_vars

\* C18 as a property of whole runs (under FairSpec): a run of EncodeWav whose
\* encoder was created returns, or an exception leaves it.  A run with a
\* stride of 0 is followed for MaxWindows windows.
C18_EncodeWavTerminates ==
  (pc = "EncodeWav_preprocess" /\ frame_rate > 0)
    ~> (encode_ret # "none" \/ pc = "threw")

\* C19: at every point of a run, encoded_raw_features is what it held at
\* entry followed by the packets EncodeRaw has returned so far, in call
\* order, and decoded_audio is what it held at entry followed by the samples
\* DecodeSamples has returned so far, in call order.  The calls made only
\* grow, so what a buffer holds at one point is a prefix of what it holds
\* later: nothing is removed, reordered or overwritten, and the contents at
\* entry stay in front.
C19_AccumulatorAppendOnly ==
  /\ encoded_raw_features = entry_features \o Outputs(EncodeRawCalls)
  /\ decoded_audio = entry_audio \o Outputs(DecodeCalls)

\* In the loop of a run entered with a buffer that was not empty, after two
\* packets decoded to different samples.
C19_Witness ==
  /\ op = "DecodeFeatures"
  /\ pc = "DecodeFeatures_loop"
  /\ entry_audio # << >>
  /\ Len(DecodeCalls) = 2
  /\ DecodeCalls[1].out # DecodeCalls[2].out
  /\ decode_samples_per_packet > 0
  /\ Len(decoded_audio) = Len(entry_audio) + 2 * decode_samples_per_packet

====
